---- MODULE Spec2Model ----
(***************************************************************************)
(* ulib mapreduce (src/ext2/mapreduce/mapreduce.h): job::exec splits a     *)
(* dataset into ntask contiguous ranges, runs one task thread per range,   *)
(* and every task folds mapper values into a shared store under a per-key  *)
(* lock.  The store, the dataset container and ulib::thread live in        *)
(* store.h, dataset.h and ulib/thread.h; their behaviour is taken from     *)
(* the interface contract the core requires of them.                       *)
(***************************************************************************)
EXTENDS Integers, Sequences, FiniteSets, TLC

\* ------------------------------------------------------------------ bounds
MaxS == 3        \* largest dataset size
MaxN == 2        \* largest ntask passed to exec
MaxExecs == 2    \* exec calls made on one job

\* ------------------------------------------------------------------ inputs
Keys == {"a", "b"}

\* a record is what the mapper sees; M::key() and M::value() read it
Records ==
    { [key |-> "a", val |-> 1], [key |-> "a", val |-> 2], [key |-> "b", val |-> 1] }

\* the two interpretations of V::operator+= that a job is run with:
\* "add" is commutative and associative, "cat" (positional append) is neither
Combines == {"add", "cat"}

Base == 1 + Cardinality(Records)

VARIABLES
    dataset,    \* job::_dataset, a sequence of records (index j is dataset[j+1])
    combine,    \* the += of the value type the job is instantiated with
    result,     \* job::_result, the store: a function from the keys present
    locks,      \* the store's per-key locks: locks[k] is the set of holders
    execPc,     \* position of job::exec: "idle", "start" or "join"
    ntask,      \* exec's argument
    idx,        \* exec's loop variable i of the start and delete loops
    tasks,      \* exec's tasks[0..ntask-1]
    execs,      \* number of exec calls that have returned
    result0,    \* history: the store handed to the job's constructor
    pre,        \* history: the store when the current exec call began
    mergedBy    \* history: per dataset index, the tasks that merged it

vars == << dataset, combine, result, locks, execPc, ntask, idx, tasks,
           execs, result0, pre, mergedBy >>

\* ------------------------------------------------------------- collaborators
\* V() of a default-constructed store entry
Default == 0

EmptyStore == [k \in {} |-> Default]

\* store::operator[]: lookup-or-create
StoreIndex(s, k) == IF k \in DOMAIN s THEN s ELSE s @@ (k :> Default)

\* store::lock blocks until the key's lock is free
StoreLockFree(l, k) == l[k] = {}

StoreLock(l, k, w) == [l EXCEPT ![k] = {w}]

StoreUnlock(l, k, w) == [l EXCEPT ![k] = {}]

\* thread::start runs the body once on its own thread
ThreadStart(t) == [t EXCEPT !.pc = "loop"]

\* thread::stop_and_join returns once a started body has ended, whether it
\* returned or was left by a failure
StopAndJoinReturns(t) == t.pc \in {"new", "done", "failed"}

\* dataset::size and *(dataset.begin() + j)
Size == Len(dataset)

Rec(j) == dataset[j + 1]

\* ------------------------------------------------------------------- mapper
MapKey(r) == r.key

MapValue(r) == r.val

\* ------------------------------------------------------------------ reducer
\* associative::operator+= : _value += other, for the job's value type
Merge(op, a, v) == IF op = "add" THEN a + v ELSE a * Base + v

\* --------------------------------------------------------------------- task
\* task::task(s, begin, end); the cursor of run() starts at _begin
NewTask(b, e) ==
    [begin |-> b, end |-> e, i |-> b, pc |-> "new", alive |-> TRUE, acc |-> Default]


\* a destructor that does not wait for the body
TaskDestructorNoJoin(t) == TRUE

\* task::~task
TaskDestructorReturns(t) == StopAndJoinReturns(t)

\* the mapper built over the first record of the range instead of *i
CurKeyOfBegin(w) == MapKey(Rec(tasks[w].begin))

\* key of the record under task w's cursor
CurKey(w) == MapKey(Rec(tasks[w].i))

CurValue(w) == MapValue(Rec(tasks[w].i))


\* the loop body entered without taking the key's lock
RunLockNoAcquire(w) ==
    /\ tasks[w].pc = "loop"
    /\ tasks[w].i # tasks[w].end
    /\ tasks' = [tasks EXCEPT ![w].pc = "index"]
    /\ UNCHANGED << dataset, combine, result, locks, execPc, ntask, idx, execs,
                    result0, pre, mergedBy >>

\* a body that goes on with the loop after a failure
RunLockRetries(w) ==
    /\ tasks[w].pc \in {"loop", "failed"}
    /\ tasks[w].i # tasks[w].end
    /\ StoreLockFree(locks, CurKey(w))
    /\ locks' = StoreLock(locks, CurKey(w), w)
    /\ tasks' = [tasks EXCEPT ![w].pc = "index"]
    /\ UNCHANGED << dataset, combine, result, execPc, ntask, idx, execs,
                    result0, pre, mergedBy >>

\* for (i = _begin; i != _end; ...) { M m(*i); _store.lock(m.key());
RunLock(w) ==
    /\ tasks[w].pc = "loop"
    /\ tasks[w].i # tasks[w].end
    /\ StoreLockFree(locks, CurKey(w))
    /\ locks' = StoreLock(locks, CurKey(w), w)
    /\ tasks' = [tasks EXCEPT ![w].pc = "index"]
    /\ UNCHANGED << dataset, combine, result, execPc, ntask, idx, execs,
                    result0, pre, mergedBy >>

\* _store[m.key()]
RunIndex(w) ==
    /\ tasks[w].pc = "index"
    /\ result' = StoreIndex(result, CurKey(w))
    /\ tasks' = [tasks EXCEPT ![w].pc = "load"]
    /\ UNCHANGED << dataset, combine, locks, execPc, ntask, idx, execs,
                    result0, pre, mergedBy >>

\* R(...) += m.value(): read of the referenced entry
RunLoad(w) ==
    /\ tasks[w].pc = "load"
    /\ tasks' = [tasks EXCEPT ![w].pc = "add", ![w].acc = result[CurKey(w)]]
    /\ UNCHANGED << dataset, combine, result, locks, execPc, ntask, idx, execs,
                    result0, pre, mergedBy >>


\* the mapped value assigned to the entry instead of merged into it
RunAddOverwrite(w) ==
    /\ tasks[w].pc = "add"
    /\ result' = [result EXCEPT ![CurKey(w)] = CurValue(w)]
    /\ tasks' = [tasks EXCEPT ![w].pc = "unlock", ![w].acc = Default]
    /\ mergedBy' = [mergedBy EXCEPT ![tasks[w].i] = Append(@, w)]
    /\ UNCHANGED << dataset, combine, locks, execPc, ntask, idx, execs,
                    result0, pre >>

\* the entry merged into the mapped value instead of the value into the entry
RunAddSwapped(w) ==
    /\ tasks[w].pc = "add"
    /\ result' = [result EXCEPT
                    ![CurKey(w)] = Merge(combine, CurValue(w), tasks[w].acc)]
    /\ tasks' = [tasks EXCEPT ![w].pc = "unlock", ![w].acc = Default]
    /\ mergedBy' = [mergedBy EXCEPT ![tasks[w].i] = Append(@, w)]
    /\ UNCHANGED << dataset, combine, locks, execPc, ntask, idx, execs,
                    result0, pre >>

\* R(...) += m.value(): write of the merged value through the reference
RunAdd(w) ==
    /\ tasks[w].pc = "add"
    /\ result' = [result EXCEPT
                    ![CurKey(w)] = Merge(combine, tasks[w].acc, CurValue(w))]
    /\ tasks' = [tasks EXCEPT ![w].pc = "unlock", ![w].acc = Default]
    /\ mergedBy' = [mergedBy EXCEPT ![tasks[w].i] = Append(@, w)]
    /\ UNCHANGED << dataset, combine, locks, execPc, ntask, idx, execs,
                    result0, pre >>

\* the cursor advanced with the key's lock still held
RunUnlockKeepsLock(w) ==
    /\ tasks[w].pc = "unlock"
    /\ tasks' = [tasks EXCEPT ![w].pc = "loop", ![w].i = @ + 1]
    /\ UNCHANGED << dataset, combine, result, locks, execPc, ntask, idx, execs,
                    result0, pre, mergedBy >>

\* _store.unlock(m.key()); } ++i
RunUnlock(w) ==
    /\ tasks[w].pc = "unlock"
    /\ locks' = StoreUnlock(locks, CurKey(w), w)
    /\ tasks' = [tasks EXCEPT ![w].pc = "loop", ![w].i = @ + 1]
    /\ UNCHANGED << dataset, combine, result, execPc, ntask, idx, execs,
                    result0, pre, mergedBy >>

\* i == _end: return 0
RunReturn(w) ==
    /\ tasks[w].pc = "loop"
    /\ tasks[w].i = tasks[w].end
    /\ tasks' = [tasks EXCEPT ![w].pc = "done"]
    /\ UNCHANGED << dataset, combine, result, locks, execPc, ntask, idx, execs,
                    result0, pre, mergedBy >>

\* a scope guard that gives the lock back when the body is left by a failure
RunFailReleases(w) ==
    /\ tasks[w].pc \in {"loop", "index", "load", "add"}
    /\ tasks[w].i # tasks[w].end
    /\ tasks' = [tasks EXCEPT ![w].pc = "failed"]
    /\ locks' = [k \in Keys |-> locks[k] \ {w}]
    /\ UNCHANGED << dataset, combine, result, execPc, ntask, idx, execs,
                    result0, pre, mergedBy >>

\* a failure in M m(*i), m.key(), _store[...] or += leaves run() at once:
\* the body has no handler and no unlock on that path
RunFail(w) ==
    /\ tasks[w].pc \in {"loop", "index", "load", "add"}
    /\ tasks[w].i # tasks[w].end
    /\ tasks' = [tasks EXCEPT ![w].pc = "failed"]
    /\ UNCHANGED << dataset, combine, result, locks, execPc, ntask, idx, execs,
                    result0, pre, mergedBy >>

Run(w) ==
    \/ RunLock(w)
    \/ RunIndex(w)
    \/ RunLoad(w)
    \/ RunAdd(w)
    \/ RunUnlock(w)
    \/ RunReturn(w)

\* ---------------------------------------------------------------------- job

\* a chunk length clamped to at least one record
ChunkLenAtLeastOne(n, size) == IF size \div n = 0 THEN 1 ELSE size \div n

\* len = _dataset.size() / ntask
ChunkLen(n, size) == size \div n

\* every task started at the beginning of the dataset
RangeBeginZero(i, n, size) == 0

\* the last task given the last len records only
RangeBeginLastFromEnd(i, n, size) ==
    IF i < n - 1 THEN ChunkLen(n, size) * i ELSE size - ChunkLen(n, size)

\* _dataset.begin() + len * i
RangeBegin(i, n, size) == ChunkLen(n, size) * i

\* the last task given len records like the others, dropping the remainder
RangeEndNoRemainder(i, n, size) == ChunkLen(n, size) * (i + 1)

\* _dataset.begin() + len * (i + 1), and _dataset.end() for the last task
RangeEnd(i, n, size) == IF i < n - 1 THEN ChunkLen(n, size) * (i + 1) ELSE size


\* an exec that empties the store before it runs
ExecClearsStore(n) ==
    /\ execPc = "idle"
    /\ execs < MaxExecs
    /\ ntask' = n
    /\ tasks' = [i \in 0 .. n - 1 |->
                    NewTask(RangeBegin(i, n, Size), RangeEnd(i, n, Size))]
    /\ execPc' = "start"
    /\ idx' = 0
    /\ pre' = result
    /\ result' = EmptyStore
    /\ mergedBy' = [j \in 0 .. Size - 1 |-> << >>]
    /\ UNCHANGED << dataset, combine, locks, execs, result0 >>

\* exec(ntask): allocate and construct tasks[0..ntask-1]
Exec(n) ==
    /\ execPc = "idle"
    /\ execs < MaxExecs
    /\ ntask' = n
    /\ tasks' = [i \in 0 .. n - 1 |->
                    NewTask(RangeBegin(i, n, Size), RangeEnd(i, n, Size))]
    /\ execPc' = "start"
    /\ idx' = 0
    /\ pre' = result
    /\ mergedBy' = [j \in 0 .. Size - 1 |-> << >>]
    /\ UNCHANGED << dataset, combine, result, locks, execs, result0 >>

\* a start loop that stops one task short
ExecStartSkipsLast ==
    /\ execPc = "start"
    /\ tasks' = [tasks EXCEPT ![idx] = ThreadStart(@)]
    /\ IF idx + 1 < ntask - 1
          THEN /\ idx' = idx + 1
               /\ execPc' = "start"
          ELSE /\ idx' = 0
               /\ execPc' = "join"
    /\ UNCHANGED << dataset, combine, result, locks, ntask, execs,
                    result0, pre, mergedBy >>

\* for (i = 0; i < ntask; ++i) tasks[i]->start();
ExecStart ==
    /\ execPc = "start"
    /\ tasks' = [tasks EXCEPT ![idx] = ThreadStart(@)]
    /\ IF idx + 1 < ntask
          THEN /\ idx' = idx + 1
               /\ execPc' = "start"
          ELSE /\ idx' = 0
               /\ execPc' = "join"
    /\ UNCHANGED << dataset, combine, result, locks, ntask, execs,
                    result0, pre, mergedBy >>

\* for (i = 0; i < ntask; ++i) delete tasks[i];  delete [] tasks; return
ExecDelete ==
    /\ execPc = "join"
    /\ TaskDestructorReturns(tasks[idx])
    /\ tasks' = [tasks EXCEPT ![idx].alive = FALSE]
    /\ IF idx + 1 < ntask
          THEN /\ idx' = idx + 1
               /\ execPc' = "join"
               /\ execs' = execs
          ELSE /\ idx' = 0
               /\ execPc' = "idle"
               /\ execs' = execs + 1
    /\ UNCHANGED << dataset, combine, result, locks, ntask,
                    result0, pre, mergedBy >>

\* ------------------------------------------------------------ specification
Datasets == UNION { [1 .. s -> Records] : s \in 0 .. MaxS }

\* the caller's store: empty, or already holding a value for every key (the
\* latter for the additive job; the other job meets a non-empty store at its
\* second exec)
Stores0 == { EmptyStore, [k \in Keys |-> Base] }

Init ==
    /\ dataset \in Datasets
    /\ combine \in Combines
    /\ result \in Stores0
    /\ combine = "cat" => result = EmptyStore
    /\ result0 = result
    /\ pre = result
    /\ locks = [k \in Keys |-> {}]
    /\ execPc = "idle"
    /\ ntask = 0
    /\ idx = 0
    /\ tasks = << >>
    /\ execs = 0
    /\ mergedBy = [j \in 0 .. Size - 1 |-> << >>]

Next ==
    \/ \E n \in 1 .. MaxN : Exec(n)
    \/ ExecStart
    \/ ExecDelete
    \/ \E w \in DOMAIN tasks : RunLock(w)
    \/ \E w \in DOMAIN tasks : RunIndex(w)
    \/ \E w \in DOMAIN tasks : RunLoad(w)
    \/ \E w \in DOMAIN tasks : RunAdd(w)
    \/ \E w \in DOMAIN tasks : RunUnlock(w)
    \/ \E w \in DOMAIN tasks : RunReturn(w)

Spec == Init /\ [][Next]_vars

\* every started thread and the thread running exec keep being scheduled;
\* whether the caller calls exec again is up to the caller
Fairness ==
    /\ WF_vars(ExecStart)
    /\ WF_vars(ExecDelete)
    /\ \A w \in 0 .. MaxN - 1 : WF_vars(w \in DOMAIN tasks /\ Run(w))

FairSpec == Spec /\ Fairness

\* the same job when the mapper, the store lookup or the merge may fail
NoneFailed == \A w \in DOMAIN tasks : tasks[w].pc # "failed"

\* the caller does not run a job again after one of its tasks failed
NextFail ==
    \/ \E n \in 1 .. MaxN : NoneFailed /\ Exec(n)
    \/ ExecStart
    \/ ExecDelete
    \/ \E w \in DOMAIN tasks : Run(w)
    \/ \E w \in DOMAIN tasks : RunFail(w)

InitFail == Init /\ combine = "add"

SpecFail == InitFail /\ [][NextFail]_vars

\* -------------------------------------------------------- reference results
Returned == execPc = "idle" /\ execs > 0

Constructed == ntask > 0

Range(w) == { j \in 0 .. Size - 1 : tasks[w].begin <= j /\ j < tasks[w].end }

ObservedKeys == { MapKey(Rec(j)) : j \in 0 .. Size - 1 }

RecordsOf(k) == { j \in 0 .. Size - 1 : MapKey(Rec(j)) = k }

Prior(s, k) == IF k \in DOMAIN s THEN s[k] ELSE Default

RECURSIVE Fold(_, _, _)
Fold(op, a, vs) ==
    IF vs = << >> THEN a ELSE Fold(op, Merge(op, a, Head(vs)), Tail(vs))

\* the mapper values of the records of [lo, hi) with key k, in dataset order
RECURSIVE KeyValues(_, _, _)
KeyValues(k, lo, hi) ==
    IF lo >= hi
       THEN << >>
       ELSE (IF MapKey(Rec(lo)) = k THEN << MapValue(Rec(lo)) >> ELSE << >>)
            \o KeyValues(k, lo + 1, hi)

\* mapper then merge applied to records 0 .. hi-1 in order, starting from s
SequentialFold(s, hi) ==
    [k \in DOMAIN s \cup { MapKey(Rec(j)) : j \in 0 .. hi - 1 } |->
        Fold(combine, Prior(s, k), KeyValues(k, 0, hi))]

CountingJob ==
    /\ combine = "add"
    /\ \A j \in 0 .. Size - 1 : MapValue(Rec(j)) = 1

InCritical(w) == tasks[w].pc \in {"index", "load", "add", "unlock"}

\* --------------------------------------------------------------- properties

\* C1: the ntask ranges built by exec are [len*i, len*(i+1)) for i < ntask-1
\* and [len*(ntask-1), size) for the last task, with len = size / ntask; they
\* are pairwise disjoint, adjacent in task order, cover exactly [0, size), and
\* every non-last range has size floor(size / ntask).
PartitionExact ==
    Constructed =>
        /\ DOMAIN tasks = 0 .. ntask - 1
        /\ \A w \in DOMAIN tasks :
              /\ tasks[w].begin = (Size \div ntask) * w
              /\ tasks[w].begin <= tasks[w].end
              /\ w < ntask - 1 =>
                    /\ tasks[w].end = (Size \div ntask) * (w + 1)
                    /\ tasks[w].end = tasks[w + 1].begin
                    /\ Cardinality(Range(w)) = Size \div ntask
              /\ w = ntask - 1 => tasks[w].end = Size
        /\ \A w, v \in DOMAIN tasks : w # v => Range(w) \cap Range(v) = {}
        /\ UNION { Range(w) : w \in DOMAIN tasks } = 0 .. Size - 1

PartitionExactWitness ==
    /\ Constructed
    /\ ntask >= 2
    /\ Size % ntask # 0
    /\ Size > ntask

\* C2: with a counting combine on an initially empty store, when exec has
\* returned every key holds exactly the number of records mapped to it, for
\* every ntask and every interleaving of the tasks' steps.
NoLostUpdates ==
    (Returned /\ CountingJob /\ result0 = EmptyStore /\ execs = 1) =>
        /\ DOMAIN result = ObservedKeys
        /\ \A k \in DOMAIN result : result[k] = Cardinality(RecordsOf(k))

NoLostUpdatesWitness ==
    /\ Returned /\ CountingJob /\ result0 = EmptyStore /\ execs = 1
    /\ \E k \in Keys : \E j1, j2 \in RecordsOf(k) :
          /\ j1 # j2
          /\ mergedBy[j1] # mergedBy[j2]
          /\ result[k] >= 2

\* C3: a task object is released only after its body has run its whole range,
\* and exec has returned only when every task has done so.
ForkJoinBarrier ==
    /\ \A w \in DOMAIN tasks :
          ~ tasks[w].alive =>
              /\ tasks[w].pc = "done"
              /\ tasks[w].i = tasks[w].end
              /\ \A j \in Range(w) : mergedBy[j] # << >>
    /\ Returned => \A w \in DOMAIN tasks :
                      ~ tasks[w].alive /\ tasks[w].pc = "done"

\* exec is blocked in the delete of a task whose body is still inside its range
ForkJoinBarrierWitness ==
    /\ execPc = "join"
    /\ InCritical(idx)
    /\ \E w \in DOMAIN tasks : ~ tasks[w].alive /\ Range(w) # {}

\* C4: with the commutative and associative merge and an initially empty
\* store, the store exec leaves is a function of the dataset alone: it is the
\* same for every ntask and every interleaving.
DeterministicUnderCommutativeMerge ==
    (Returned /\ combine = "add" /\ pre = EmptyStore) =>
        result = [k \in ObservedKeys |->
                     Fold("add", Default, KeyValues(k, 0, Size))]

DeterministicUnderCommutativeMergeWitness ==
    /\ Returned /\ combine = "add" /\ pre = EmptyStore
    /\ ntask >= 2
    /\ \E j1, j2 \in 0 .. Size - 1 :
          /\ MapKey(Rec(j1)) = MapKey(Rec(j2))
          /\ MapValue(Rec(j1)) # MapValue(Rec(j2))
          /\ mergedBy[j1] # mergedBy[j2]

\* C5: exec(1) gives its single task the range [0, size), and the store is at
\* every record boundary the sequential left fold of mapper and merge over
\* the records processed so far, for either merge; on return it is the fold
\* over the whole dataset.
SingleWorkerEquivalence ==
    (Constructed /\ ntask = 1) =>
        /\ tasks[0].begin = 0
        /\ tasks[0].end = Size
        /\ tasks[0].pc \in {"new", "loop", "done"} =>
              result = SequentialFold(pre, tasks[0].i)
        /\ Returned => result = SequentialFold(pre, Size)

SingleWorkerEquivalenceWitness ==
    /\ Returned /\ ntask = 1 /\ combine = "cat"
    /\ \E k \in Keys : \E j1, j2 \in RecordsOf(k) :
          MapValue(Rec(j1)) # MapValue(Rec(j2))

\* C6: at most one task is between lock(k) and unlock(k) for a key k, and a
\* task that is at the lookup-or-create, the merge or the unlock of k holds
\* the lock of k.
PerKeyMutualExclusion ==
    /\ \A w \in DOMAIN tasks : InCritical(w) => locks[CurKey(w)] = {w}
    /\ \A w, v \in DOMAIN tasks :
          (w # v /\ InCritical(w) /\ InCritical(v)) => CurKey(w) # CurKey(v)
    /\ \A k \in Keys : Cardinality(locks[k]) <= 1

\* one task is inside the critical section of k while another waits for k
PerKeyMutualExclusionWitness ==
    \E w, v \in DOMAIN tasks :
        /\ w # v
        /\ tasks[w].pc = "load"
        /\ tasks[v].pc = "loop"
        /\ tasks[v].i # tasks[v].end
        /\ CurKey(v) = CurKey(w)

\* C7: no record is ever merged more than once, a record is merged only by
\* the task whose range holds it, and when exec has returned every record
\* 0 .. size-1 has been merged exactly once.
ExactlyOnce ==
    /\ \A j \in 0 .. Size - 1 :
          /\ Len(mergedBy[j]) <= 1
          /\ \A p \in 1 .. Len(mergedBy[j]) : j \in Range(mergedBy[j][p])
    /\ Returned => \A j \in 0 .. Size - 1 : Len(mergedBy[j]) = 1

ExactlyOnceWitness ==
    /\ Returned
    /\ Size >= 2
    /\ \E j1, j2 \in 0 .. Size - 1 :
          /\ Len(mergedBy[j1]) = 1 /\ Len(mergedBy[j2]) = 1
          /\ mergedBy[j1] # mergedBy[j2]

\* C8: on an empty dataset every task gets the range [0, 0) and never enters
\* the loop body, no lock is taken, the store stays exactly the store the job
\* was given (no entry created), and every exec call that is made returns.
EmptyDatasetInert ==
    /\ [](Size = 0 =>
            /\ \A w \in DOMAIN tasks :
                  /\ tasks[w].begin = 0
                  /\ tasks[w].end = 0
                  /\ tasks[w].pc \in {"new", "loop", "done"}
            /\ \A k \in Keys : locks[k] = {}
            /\ result = pre
            /\ result = result0)
    /\ ((Size = 0 /\ execPc # "idle") ~> (execPc = "idle"))

EmptyDatasetInertWitness ==
    /\ Size = 0
    /\ Returned
    /\ ntask >= 2
    /\ result # EmptyStore

\* C9: when ntask exceeds the dataset size, len is 0, tasks 0 .. ntask-2 have
\* an empty range and never enter the loop body, the last task's range is
\* [0, size), and every merge is made by the last task, which has made all of
\* them when exec returns.
DegenerateSplit ==
    (Constructed /\ ntask > Size) =>
        /\ Size \div ntask = 0
        /\ \A w \in 0 .. ntask - 2 :
              /\ tasks[w].begin = tasks[w].end
              /\ tasks[w].pc \in {"new", "loop", "done"}
        /\ tasks[ntask - 1].begin = 0
        /\ tasks[ntask - 1].end = Size
        /\ \A j \in 0 .. Size - 1 :
              \A p \in 1 .. Len(mergedBy[j]) : mergedBy[j][p] = ntask - 1
        /\ Returned => \A j \in 0 .. Size - 1 : mergedBy[j] = << ntask - 1 >>

DegenerateSplitWitness ==
    /\ Returned
    /\ ntask > Size
    /\ Size >= 1
    /\ result # pre

\* C10: exec merges into what the store already holds.  With the additive
\* merge, after the e-th exec has returned every key of the store holds its
\* value from before the first exec (the default if it had no entry) plus e
\* times the sum of its mapped values; entries of keys the dataset does not
\* mention are never changed, no entry is ever removed, and no lock and no
\* task is left over from the call.
AccumulatesAcrossExecs ==
    /\ DOMAIN pre \subseteq DOMAIN result
    /\ \A k \in DOMAIN pre \ ObservedKeys : result[k] = pre[k]
    /\ DOMAIN result \subseteq DOMAIN result0 \cup ObservedKeys
    /\ (Returned /\ combine = "add") =>
          /\ DOMAIN result = DOMAIN result0 \cup ObservedKeys
          /\ \A k \in DOMAIN result :
                result[k] = Prior(result0, k)
                            + execs * Fold("add", 0, KeyValues(k, 0, Size))
          /\ \A k \in Keys : locks[k] = {}
          /\ \A w \in DOMAIN tasks : ~ tasks[w].alive

AccumulatesAcrossExecsWitness ==
    /\ Returned /\ CountingJob /\ execs = 2
    /\ result0 = EmptyStore
    /\ \E k \in DOMAIN result :
          /\ Cardinality(RecordsOf(k)) >= 2
          /\ result[k] = 2 * Cardinality(RecordsOf(k))

\* the locks task w holds
HeldBy(w) == { k \in Keys : w \in locks[k] }

\* C11: a task works through its range in increasing index order, one record
\* at a time: the records of its range that have been merged are exactly
\* those before its cursor (and the one under the cursor once its merge is
\* written), and whenever the task is at the head of the loop, about to
\* request the lock of the next record, it holds no lock.
InDatasetOrder ==
    \A w \in DOMAIN tasks :
        /\ \A j \in Range(w) :
              (mergedBy[j] # << >>) <=>
                  (j < tasks[w].i \/ (j = tasks[w].i /\ tasks[w].pc = "unlock"))
        /\ tasks[w].pc = "loop" => HeldBy(w) = {}

\* a task holds the lock of its second record, of the same key as its first
InDatasetOrderWitness ==
    \E w \in DOMAIN tasks :
        /\ tasks[w].pc = "index"
        /\ tasks[w].i > tasks[w].begin
        /\ MapKey(Rec(tasks[w].i)) = MapKey(Rec(tasks[w].i - 1))
        /\ HeldBy(w) = { MapKey(Rec(tasks[w].i)) }

\* per task, the mapped values of its range that go to key k, in dataset order
TaskValues(k) ==
    [w \in DOMAIN tasks |-> KeyValues(k, tasks[w].begin, tasks[w].end)]

\* all interleavings of the sequences f[w] that keep each f[w] in order
RECURSIVE Interleavings(_)
Interleavings(f) ==
    IF \A w \in DOMAIN f : f[w] = << >>
       THEN { << >> }
       ELSE UNION { { << Head(f[w]) >> \o s :
                        s \in Interleavings([f EXCEPT ![w] = Tail(@)]) } :
                    w \in { v \in DOMAIN f : f[v] # << >> } }

\* C12: for either merge, when exec has returned the value of every key is
\* the left fold, from the value the key had before the call (the default if
\* none), of the key's mapped values in some interleaving of the tasks'
\* sequences that keeps each task's dataset order; no other value is reached.
LinearizedMergeOrder ==
    Returned =>
        /\ DOMAIN result = DOMAIN pre \cup ObservedKeys
        /\ \A k \in DOMAIN result :
              result[k] \in { Fold(combine, Prior(pre, k), s) :
                                s \in Interleavings(TaskValues(k)) }

\* an order other than dataset order has been taken
LinearizedMergeOrderWitness ==
    /\ Returned
    /\ combine = "cat"
    /\ ntask >= 2
    /\ \E k \in DOMAIN result : result[k] # SequentialFold(pre, Size)[k]

\* C13: exec starts tasks 0 .. ntask-1 in order and releases none before all
\* are started; it then releases them in index order.
StartAllThenJoin ==
    Constructed =>
        /\ execPc = "start" =>
              \A w \in DOMAIN tasks :
                  /\ tasks[w].alive
                  /\ (tasks[w].pc = "new") <=> (w >= idx)
        /\ execPc = "join" =>
              \A w \in DOMAIN tasks :
                  /\ tasks[w].pc # "new"
                  /\ tasks[w].alive <=> (w >= idx)
        /\ \A w, v \in DOMAIN tasks : ~ tasks[w].alive => tasks[v].pc # "new"

\* two tasks are inside their ranges at the same time
StartAllThenJoinWitness ==
    \E w, v \in DOMAIN tasks :
        /\ w # v
        /\ InCritical(w)
        /\ InCritical(v)

\* a step of exec or of one of its tasks
ExecProgress ==
    \/ ExecStart
    \/ ExecDelete
    \/ \E w \in DOMAIN tasks : Run(w)

\* C14: with no failure and fair scheduling every exec call returns, with
\* every task finished (the job is again and again back at rest with all of
\* its tasks done, so no call runs forever); while a call is running some
\* step of exec or of a task is always possible, and a task finishes only at
\* the end of its range with all of its records merged.
ExecTerminates ==
    /\ [](execPc # "idle" => ENABLED ExecProgress)
    /\ [](\A w \in DOMAIN tasks :
             tasks[w].pc = "done" =>
                 /\ tasks[w].i = tasks[w].end
                 /\ \A j \in Range(w) : mergedBy[j] = << w >>)
    /\ []<>(execPc = "idle" /\ \A w \in DOMAIN tasks : tasks[w].pc = "done")

\* a call with two tasks that had to take the same key has returned
ExecTerminatesWitness ==
    /\ Returned
    /\ ntask >= 2
    /\ \E j1, j2 \in 0 .. Size - 1 :
          /\ MapKey(Rec(j1)) = MapKey(Rec(j2))
          /\ mergedBy[j1] # << >>
          /\ mergedBy[j2] # << >>
          /\ mergedBy[j1] # mergedBy[j2]

\* the keys of the records that have been looked up in the store by now
IndexedKeys ==
    { MapKey(Rec(j)) : j \in { j \in 0 .. Size - 1 : mergedBy[j] # << >> } }
    \cup { MapKey(Rec(tasks[w].i)) :
             w \in { v \in DOMAIN tasks : tasks[v].pc \in {"load", "add", "unlock"} } }

\* C15: a key the store did not hold before the call has an entry exactly
\* from the first lookup made for a record mapped to it; the entry holds the
\* default until the first merge is written, every merge folds the mapped
\* value into the value the entry holds, and after a call on an empty store
\* the keys of the store are exactly the keys the mapper yields.
KeyCreation ==
    /\ [](DOMAIN result = DOMAIN pre \cup IndexedKeys)
    /\ [](\A k \in DOMAIN result \ DOMAIN pre :
             (\A j \in RecordsOf(k) : mergedBy[j] = << >>) => result[k] = Default)
    /\ [][\A w \in DOMAIN tasks :
             (tasks[w].pc = "add" /\ tasks'[w].pc = "unlock") =>
                 /\ MapKey(Rec(tasks[w].i)) \in DOMAIN result
                 /\ result'[MapKey(Rec(tasks[w].i))] =
                       Merge(combine, result[MapKey(Rec(tasks[w].i))],
                             MapValue(Rec(tasks[w].i)))]_vars
    /\ []((Returned /\ pre = EmptyStore) => DOMAIN result = ObservedKeys)

\* a store that was empty holds one key, merged twice, and not the other
KeyCreationWitness ==
    /\ Returned
    /\ pre = EmptyStore
    /\ DOMAIN result # Keys
    /\ \E k \in DOMAIN result : Cardinality(RecordsOf(k)) >= 2

\* the step is one step of task w's body
RunStep(w) ==
    /\ execPc' = execPc
    /\ idx' = idx
    /\ execs' = execs
    /\ tasks'[w] # tasks[w]

\* C16: a step of a task that is processing a record with mapped key k leaves
\* the dataset, every task's range, every other task, the store entries of
\* all keys other than k and the locks of all keys other than k as they
\* were; the step that ends the body changes neither store nor locks.
FrameOfStep ==
    [][\A w \in DOMAIN tasks :
          RunStep(w) =>
              /\ dataset' = dataset
              /\ combine' = combine
              /\ DOMAIN tasks' = DOMAIN tasks
              /\ \A v \in DOMAIN tasks :
                    /\ tasks'[v].begin = tasks[v].begin
                    /\ tasks'[v].end = tasks[v].end
                    /\ v # w => tasks'[v] = tasks[v]
              /\ IF tasks[w].i = tasks[w].end
                    THEN result' = result /\ locks' = locks
                    ELSE \A k \in Keys \ { MapKey(Rec(tasks[w].i)) } :
                            /\ locks'[k] = locks[k]
                            /\ (k \in DOMAIN result') <=> (k \in DOMAIN result)
                            /\ k \in DOMAIN result => result'[k] = result[k]]_vars

\* a task has written its merge for one key while the other key has an entry
\* that another task is working on
FrameOfStepWitness ==
    \E w, v \in DOMAIN tasks :
        /\ tasks[w].pc = "unlock"
        /\ tasks[v].pc = "add"
        /\ MapKey(Rec(tasks[v].i)) # MapKey(Rec(tasks[w].i))
        /\ MapKey(Rec(tasks[v].i)) \in DOMAIN result

\* C19: a task holds at most one lock, only while it is between lock and
\* unlock, and only the lock of the key of the record under its cursor; the
\* step that advances the cursor is the one that releases that lock; every
\* lock is held by a task of the call, and none is held once exec returned.
LockDiscipline ==
    /\ [](/\ \A w \in DOMAIN tasks :
                /\ Cardinality(HeldBy(w)) <= 1
                /\ HeldBy(w) # {} =>
                      /\ InCritical(w)
                      /\ HeldBy(w) = { MapKey(Rec(tasks[w].i)) }
          /\ \A k \in Keys : locks[k] \subseteq DOMAIN tasks
          /\ Returned => \A k \in Keys : locks[k] = {})
    /\ [][\A w \in DOMAIN tasks :
             (RunStep(w) /\ tasks'[w].i # tasks[w].i) =>
                 /\ HeldBy(w) = { MapKey(Rec(tasks[w].i)) }
                 /\ \A k \in Keys : w \notin locks'[k]]_vars

\* a task holds the lock of its second record only, whose key is not the
\* key of its first
LockDisciplineWitness ==
    \E w \in DOMAIN tasks :
        /\ tasks[w].pc = "unlock"
        /\ tasks[w].i > tasks[w].begin
        /\ MapKey(Rec(tasks[w].i)) # MapKey(Rec(tasks[w].i - 1))
        /\ HeldBy(w) = { MapKey(Rec(tasks[w].i)) }

\* C20: every range satisfies 0 <= begin <= end <= size (so len*(ntask-1) <=
\* size), the cursor stays within [begin, end], a task inside the loop body
\* has its cursor on a record of the dataset, and a finished task has its
\* cursor at end.
RangeWellFormed ==
    Constructed =>
        /\ (Size \div ntask) * (ntask - 1) <= Size
        /\ \A w \in DOMAIN tasks :
              /\ 0 <= tasks[w].begin
              /\ tasks[w].begin <= tasks[w].end
              /\ tasks[w].end <= Size
              /\ tasks[w].begin <= tasks[w].i
              /\ tasks[w].i <= tasks[w].end
              /\ InCritical(w) => (0 <= tasks[w].i /\ tasks[w].i < Size
                                   /\ tasks[w].i < tasks[w].end)
              /\ tasks[w].pc = "done" => tasks[w].i = tasks[w].end
              /\ tasks[w].pc = "new" => tasks[w].i = tasks[w].begin

\* the last task is on the last record of a remainder larger than len
RangeWellFormedWitness ==
    /\ ntask >= 2
    /\ Size % ntask # 0
    /\ tasks[ntask - 1].pc = "unlock"
    /\ tasks[ntask - 1].i = Size - 1
    /\ tasks[ntask - 1].end - tasks[ntask - 1].begin > Size \div ntask

\* the sum of the mapped values of the records of key k merged so far
RECURSIVE MergedSum(_, _)
MergedSum(k, hi) ==
    IF hi = 0
       THEN 0
       ELSE MergedSum(k, hi - 1)
            + (IF MapKey(Rec(hi - 1)) = k
                  THEN Len(mergedBy[hi - 1]) * MapValue(Rec(hi - 1))
                  ELSE 0)

\* C17: a task that has failed at a position of its range stays failed with
\* its cursor there, and no record after that position is merged by anyone;
\* the failing step changes neither the store nor any other task; a merge
\* once applied stays applied, so the store always holds, per key, its value
\* from before the call plus exactly the merges written so far, and the
\* tasks that finish have merged their whole range.
NoRetryNoRollback ==
    /\ [](\A w \in DOMAIN tasks :
             /\ tasks[w].pc = "failed" =>
                   \A j \in Range(w) :
                       (mergedBy[j] # << >>) <=> (j < tasks[w].i)
             /\ tasks[w].pc = "done" =>
                   \A j \in Range(w) : mergedBy[j] = << w >>)
    /\ [](\A k \in DOMAIN result :
             result[k] = Prior(pre, k) + MergedSum(k, Size))
    /\ [][execPc # "idle" =>
             /\ \A w \in DOMAIN tasks :
                   /\ tasks[w].pc = "failed" =>
                         /\ tasks'[w].pc = "failed"
                         /\ tasks'[w].i = tasks[w].i
                   /\ (tasks[w].pc # "failed" /\ tasks'[w].pc = "failed") =>
                         /\ result' = result
                         /\ mergedBy' = mergedBy
                         /\ \A v \in DOMAIN tasks \ {w} : tasks'[v] = tasks[v]
             /\ \A j \in 0 .. Size - 1 :
                   mergedBy[j] # << >> => mergedBy'[j] = mergedBy[j]]_vars

\* exec has returned although a task failed after its first merge and before
\* its last, and another task merged its whole range
NoRetryNoRollbackWitness ==
    /\ Returned
    /\ \E w, v \in DOMAIN tasks :
          /\ tasks[w].pc = "failed"
          /\ tasks[w].begin < tasks[w].i
          /\ tasks[w].i < tasks[w].end
          /\ tasks[v].pc = "done"
          /\ Range(v) # {}
    /\ result # SequentialFold(pre, Size)

\* the lock of k is held by a task that is not between lock(k) and unlock(k)
Leaked(k) ==
    \E w \in locks[k] :
        \/ w \notin DOMAIN tasks
        \/ ~ InCritical(w)
        \/ MapKey(Rec(tasks[w].i)) # k

\* task v is at its lock call for a key whose lock has leaked
Stuck(v) ==
    /\ tasks[v].pc = "loop"
    /\ tasks[v].i # tasks[v].end
    /\ Leaked(MapKey(Rec(tasks[v].i)))

\* C18: a task that fails between lock(k) and the write of its merge leaves
\* run() still holding the lock of k; a lock so left is never released; a
\* task that reaches its lock call for k never gets past it (its cursor does
\* not move again), and while such a task is waiting exec has not returned
\* and the task has not been released.
LockLeakOnFailure ==
    /\ [][\A w \in DOMAIN tasks :
             (RunStep(w) /\ InCritical(w) /\ tasks'[w].pc = "failed") =>
                 /\ locks' = locks
                 /\ w \in locks'[MapKey(Rec(tasks[w].i))]]_vars
    /\ [][\A k \in Keys : Leaked(k) => (Leaked(k)' /\ locks'[k] = locks[k])]_vars
    /\ [][\A v \in DOMAIN tasks :
             Stuck(v) =>
                 /\ tasks'[v].i = tasks[v].i
                 /\ tasks'[v].pc \in {"loop", "failed"}
                 /\ tasks'[v].pc = "loop" => Stuck(v)']_vars
    /\ [](\A v \in DOMAIN tasks :
             Stuck(v) => (execPc # "idle" /\ tasks[v].alive))

\* exec is waiting for a task that waits for a lock a failed task left held
LockLeakOnFailureWitness ==
    /\ execPc = "join"
    /\ \E w, v \in DOMAIN tasks :
          /\ tasks[w].pc = "failed"
          /\ HeldBy(w) # {}
          /\ Stuck(v)
          /\ v = idx

====
